---- MODULE Spec2Model ----
(***************************************************************************)
(* CSVDeduplicator (src/main.py): loading and normalising the input rows,  *)
(* setting up the deduper (saved settings, or active learning + training   *)
(* + saving), clustering and writing the result file.                      *)
(*                                                                         *)
(* Strings are sequences of Unicode code points, so that strip() and       *)
(* lower() are computed character by character.  The files named on the    *)
(* command line (settings, training, output) are modelled by their         *)
(* content; "Absent" is a path that does not exist.                        *)
(***************************************************************************)
EXTENDS Integers, Sequences, FiniteSets, TLC

VARIABLES
    \* ---- read_data, row by row (specification SpecLoad) ----
    inputExists,    \* os.path.exists(self.input_file)
    rows,           \* the rows csv.DictReader yields
    idx,            \* rows consumed so far
    data_d,         \* the dictionary read_data builds
    lstatus,        \* "reading", "returned", "KeyError", "AssertionError"
    \* ---- the files shared by successive runs ----
    settingsFile,   \* Absent, or [schema, complete]
    trainingFile,   \* Absent, or [pairs, complete]
    outputFile,     \* Absent, or [header, rows]
    \* ---- one run of the program (specification Spec) ----
    pc,             \* position of the running process
    fields,         \* self.fields
    data,           \* self.data
    inputIds,       \* the identifiers of the rows of the input file of this run
    deduper,        \* self.deduper
    clustered_dupes,\* result of self.deduper.match
    handles,        \* file objects currently open in the process
    error,          \* the exception that ended the run, "" if none
    calls,          \* library entry points called in this run, in order
    settings0,      \* the settings file as it was when the run started
    training0,      \* the training file as it was when the run started
    output0         \* the output file as it was when the run started

loadVars == <<inputExists, rows, idx, data_d, lstatus>>
diskVars == <<settingsFile, trainingFile, outputFile>>
runVars  == <<pc, fields, data, inputIds, deduper, clustered_dupes,
              handles, error, calls, settings0, training0, output0>>
vars     == <<loadVars, diskVars, runVars>>

----------------------------------------------------------------------------
(* Bounds of the model *)

MaxRows == 3

----------------------------------------------------------------------------
(* Characters and strings *)

\* str.isspace(): the code points str.strip() removes (Unicode 14)
Whitespace ==
    {9, 10, 11, 12, 13, 28, 29, 30, 31, 32, 133, 160, 5760, 8192, 8193,
     8194, 8195, 8196, 8197, 8198, 8199, 8200, 8201, 8202, 8232, 8233, 8239, 8287, 12288}

\* the simple lowercase mappings of the Unicode database, as
\* <<first, last, step, delta>>: every step-th code point from first to last
\* maps to itself plus delta
LowerRanges ==
    <<<<65, 90, 1, 32>>, <<192, 214, 1, 32>>, <<216, 222, 1, 32>>, <<256, 302, 2, 1>>,
      <<306, 310, 2, 1>>, <<313, 327, 2, 1>>, <<330, 374, 2, 1>>, <<376, 376, 1, -121>>,
      <<377, 381, 2, 1>>, <<385, 385, 1, 210>>, <<386, 388, 2, 1>>, <<390, 390, 1, 206>>,
      <<391, 391, 1, 1>>, <<393, 394, 1, 205>>, <<395, 395, 1, 1>>, <<398, 398, 1, 79>>,
      <<399, 399, 1, 202>>, <<400, 400, 1, 203>>, <<401, 401, 1, 1>>, <<403, 403, 1, 205>>,
      <<404, 404, 1, 207>>, <<406, 406, 1, 211>>, <<407, 407, 1, 209>>, <<408, 408, 1, 1>>,
      <<412, 412, 1, 211>>, <<413, 413, 1, 213>>, <<415, 415, 1, 214>>, <<416, 420, 2, 1>>,
      <<422, 422, 1, 218>>, <<423, 423, 1, 1>>, <<425, 425, 1, 218>>, <<428, 428, 1, 1>>,
      <<430, 430, 1, 218>>, <<431, 431, 1, 1>>, <<433, 434, 1, 217>>, <<435, 437, 2, 1>>,
      <<439, 439, 1, 219>>, <<440, 440, 1, 1>>, <<444, 444, 1, 1>>, <<452, 452, 1, 2>>,
      <<453, 453, 1, 1>>, <<455, 455, 1, 2>>, <<456, 456, 1, 1>>, <<458, 458, 1, 2>>,
      <<459, 475, 2, 1>>, <<478, 494, 2, 1>>, <<497, 497, 1, 2>>, <<498, 500, 2, 1>>,
      <<502, 502, 1, -97>>, <<503, 503, 1, -56>>, <<504, 542, 2, 1>>, <<544, 544, 1, -130>>,
      <<546, 562, 2, 1>>, <<570, 570, 1, 10795>>, <<571, 571, 1, 1>>, <<573, 573, 1, -163>>,
      <<574, 574, 1, 10792>>, <<577, 577, 1, 1>>, <<579, 579, 1, -195>>, <<580, 580, 1, 69>>,
      <<581, 581, 1, 71>>, <<582, 590, 2, 1>>, <<880, 882, 2, 1>>, <<886, 886, 1, 1>>,
      <<895, 895, 1, 116>>, <<902, 902, 1, 38>>, <<904, 906, 1, 37>>, <<908, 908, 1, 64>>,
      <<910, 911, 1, 63>>, <<913, 929, 1, 32>>, <<932, 939, 1, 32>>, <<975, 975, 1, 8>>,
      <<984, 1006, 2, 1>>, <<1012, 1012, 1, -60>>, <<1015, 1015, 1, 1>>, <<1017, 1017, 1, -7>>,
      <<1018, 1018, 1, 1>>, <<1021, 1023, 1, -130>>, <<1024, 1039, 1, 80>>, <<1040, 1071, 1, 32>>,
      <<1120, 1152, 2, 1>>, <<1162, 1214, 2, 1>>, <<1216, 1216, 1, 15>>, <<1217, 1229, 2, 1>>,
      <<1232, 1326, 2, 1>>, <<1329, 1366, 1, 48>>, <<4256, 4293, 1, 7264>>, <<4295, 4295, 1, 7264>>,
      <<4301, 4301, 1, 7264>>, <<5024, 5103, 1, 38864>>, <<5104, 5109, 1, 8>>, <<7312, 7354, 1, -3008>>,
      <<7357, 7359, 1, -3008>>, <<7680, 7828, 2, 1>>, <<7838, 7838, 1, -7615>>, <<7840, 7934, 2, 1>>,
      <<7944, 7951, 1, -8>>, <<7960, 7965, 1, -8>>, <<7976, 7983, 1, -8>>, <<7992, 7999, 1, -8>>,
      <<8008, 8013, 1, -8>>, <<8025, 8031, 2, -8>>, <<8040, 8047, 1, -8>>, <<8072, 8079, 1, -8>>,
      <<8088, 8095, 1, -8>>, <<8104, 8111, 1, -8>>, <<8120, 8121, 1, -8>>, <<8122, 8123, 1, -74>>,
      <<8124, 8124, 1, -9>>, <<8136, 8139, 1, -86>>, <<8140, 8140, 1, -9>>, <<8152, 8153, 1, -8>>,
      <<8154, 8155, 1, -100>>, <<8168, 8169, 1, -8>>, <<8170, 8171, 1, -112>>, <<8172, 8172, 1, -7>>,
      <<8184, 8185, 1, -128>>, <<8186, 8187, 1, -126>>, <<8188, 8188, 1, -9>>, <<8486, 8486, 1, -7517>>,
      <<8490, 8490, 1, -8383>>, <<8491, 8491, 1, -8262>>, <<8498, 8498, 1, 28>>, <<8544, 8559, 1, 16>>,
      <<8579, 8579, 1, 1>>, <<9398, 9423, 1, 26>>, <<11264, 11311, 1, 48>>, <<11360, 11360, 1, 1>>,
      <<11362, 11362, 1, -10743>>, <<11363, 11363, 1, -3814>>, <<11364, 11364, 1, -10727>>, <<11367, 11371, 2, 1>>,
      <<11373, 11373, 1, -10780>>, <<11374, 11374, 1, -10749>>, <<11375, 11375, 1, -10783>>, <<11376, 11376, 1, -10782>>,
      <<11378, 11378, 1, 1>>, <<11381, 11381, 1, 1>>, <<11390, 11391, 1, -10815>>, <<11392, 11490, 2, 1>>,
      <<11499, 11501, 2, 1>>, <<11506, 11506, 1, 1>>, <<42560, 42604, 2, 1>>, <<42624, 42650, 2, 1>>,
      <<42786, 42798, 2, 1>>, <<42802, 42862, 2, 1>>, <<42873, 42875, 2, 1>>, <<42877, 42877, 1, -35332>>,
      <<42878, 42886, 2, 1>>, <<42891, 42891, 1, 1>>, <<42893, 42893, 1, -42280>>, <<42896, 42898, 2, 1>>,
      <<42902, 42920, 2, 1>>, <<42922, 42922, 1, -42308>>, <<42923, 42923, 1, -42319>>, <<42924, 42924, 1, -42315>>,
      <<42925, 42925, 1, -42305>>, <<42926, 42926, 1, -42308>>, <<42928, 42928, 1, -42258>>, <<42929, 42929, 1, -42282>>,
      <<42930, 42930, 1, -42261>>, <<42931, 42931, 1, 928>>, <<42932, 42946, 2, 1>>, <<42948, 42948, 1, -48>>,
      <<42949, 42949, 1, -42307>>, <<42950, 42950, 1, -35384>>, <<42951, 42953, 2, 1>>, <<42960, 42960, 1, 1>>,
      <<42966, 42968, 2, 1>>, <<42997, 42997, 1, 1>>, <<65313, 65338, 1, 32>>, <<66560, 66599, 1, 40>>,
      <<66736, 66771, 1, 40>>, <<66928, 66938, 1, 39>>, <<66940, 66954, 1, 39>>, <<66956, 66962, 1, 39>>,
      <<66964, 66965, 1, 39>>, <<68736, 68786, 1, 64>>, <<71840, 71871, 1, 32>>, <<93760, 93791, 1, 32>>,
      <<125184, 125217, 1, 34>>>>

\* code points with the Case_Ignorable property, as <<first, last>>
CaseIgnorableRanges ==
    <<<<39, 39>>, <<46, 46>>, <<58, 58>>, <<94, 94>>, <<96, 96>>, <<168, 168>>,
      <<173, 173>>, <<175, 175>>, <<180, 180>>, <<183, 184>>, <<688, 879>>, <<884, 885>>,
      <<890, 890>>, <<900, 901>>, <<903, 903>>, <<1155, 1161>>, <<1369, 1369>>, <<1375, 1375>>,
      <<1425, 1469>>, <<1471, 1471>>, <<1473, 1474>>, <<1476, 1477>>, <<1479, 1479>>, <<1524, 1524>>,
      <<1536, 1541>>, <<1552, 1562>>, <<1564, 1564>>, <<1600, 1600>>, <<1611, 1631>>, <<1648, 1648>>,
      <<1750, 1757>>, <<1759, 1768>>, <<1770, 1773>>, <<1807, 1807>>, <<1809, 1809>>, <<1840, 1866>>,
      <<1958, 1968>>, <<2027, 2037>>, <<2042, 2042>>, <<2045, 2045>>, <<2070, 2093>>, <<2137, 2139>>,
      <<2184, 2184>>, <<2192, 2193>>, <<2200, 2207>>, <<2249, 2306>>, <<2362, 2362>>, <<2364, 2364>>,
      <<2369, 2376>>, <<2381, 2381>>, <<2385, 2391>>, <<2402, 2403>>, <<2417, 2417>>, <<2433, 2433>>,
      <<2492, 2492>>, <<2497, 2500>>, <<2509, 2509>>, <<2530, 2531>>, <<2558, 2558>>, <<2561, 2562>>,
      <<2620, 2620>>, <<2625, 2626>>, <<2631, 2632>>, <<2635, 2637>>, <<2641, 2641>>, <<2672, 2673>>,
      <<2677, 2677>>, <<2689, 2690>>, <<2748, 2748>>, <<2753, 2757>>, <<2759, 2760>>, <<2765, 2765>>,
      <<2786, 2787>>, <<2810, 2815>>, <<2817, 2817>>, <<2876, 2876>>, <<2879, 2879>>, <<2881, 2884>>,
      <<2893, 2893>>, <<2901, 2902>>, <<2914, 2915>>, <<2946, 2946>>, <<3008, 3008>>, <<3021, 3021>>,
      <<3072, 3072>>, <<3076, 3076>>, <<3132, 3132>>, <<3134, 3136>>, <<3142, 3144>>, <<3146, 3149>>,
      <<3157, 3158>>, <<3170, 3171>>, <<3201, 3201>>, <<3260, 3260>>, <<3263, 3263>>, <<3270, 3270>>,
      <<3276, 3277>>, <<3298, 3299>>, <<3328, 3329>>, <<3387, 3388>>, <<3393, 3396>>, <<3405, 3405>>,
      <<3426, 3427>>, <<3457, 3457>>, <<3530, 3530>>, <<3538, 3540>>, <<3542, 3542>>, <<3633, 3633>>,
      <<3636, 3642>>, <<3654, 3662>>, <<3761, 3761>>, <<3764, 3772>>, <<3782, 3782>>, <<3784, 3789>>,
      <<3864, 3865>>, <<3893, 3893>>, <<3895, 3895>>, <<3897, 3897>>, <<3953, 3966>>, <<3968, 3972>>,
      <<3974, 3975>>, <<3981, 3991>>, <<3993, 4028>>, <<4038, 4038>>, <<4141, 4144>>, <<4146, 4151>>,
      <<4153, 4154>>, <<4157, 4158>>, <<4184, 4185>>, <<4190, 4192>>, <<4209, 4212>>, <<4226, 4226>>,
      <<4229, 4230>>, <<4237, 4237>>, <<4253, 4253>>, <<4348, 4348>>, <<4957, 4959>>, <<5906, 5908>>,
      <<5938, 5939>>, <<5970, 5971>>, <<6002, 6003>>, <<6068, 6069>>, <<6071, 6077>>, <<6086, 6086>>,
      <<6089, 6099>>, <<6103, 6103>>, <<6109, 6109>>, <<6155, 6159>>, <<6211, 6211>>, <<6277, 6278>>,
      <<6313, 6313>>, <<6432, 6434>>, <<6439, 6440>>, <<6450, 6450>>, <<6457, 6459>>, <<6679, 6680>>,
      <<6683, 6683>>, <<6742, 6742>>, <<6744, 6750>>, <<6752, 6752>>, <<6754, 6754>>, <<6757, 6764>>,
      <<6771, 6780>>, <<6783, 6783>>, <<6823, 6823>>, <<6832, 6862>>, <<6912, 6915>>, <<6964, 6964>>,
      <<6966, 6970>>, <<6972, 6972>>, <<6978, 6978>>, <<7019, 7027>>, <<7040, 7041>>, <<7074, 7077>>,
      <<7080, 7081>>, <<7083, 7085>>, <<7142, 7142>>, <<7144, 7145>>, <<7149, 7149>>, <<7151, 7153>>,
      <<7212, 7219>>, <<7222, 7223>>, <<7288, 7293>>, <<7376, 7378>>, <<7380, 7392>>, <<7394, 7400>>,
      <<7405, 7405>>, <<7412, 7412>>, <<7416, 7417>>, <<7468, 7530>>, <<7544, 7544>>, <<7579, 7679>>,
      <<8125, 8125>>, <<8127, 8129>>, <<8141, 8143>>, <<8157, 8159>>, <<8173, 8175>>, <<8189, 8190>>,
      <<8203, 8207>>, <<8216, 8217>>, <<8228, 8228>>, <<8231, 8231>>, <<8234, 8238>>, <<8288, 8292>>,
      <<8294, 8303>>, <<8305, 8305>>, <<8319, 8319>>, <<8336, 8348>>, <<8400, 8432>>, <<11388, 11389>>,
      <<11503, 11505>>, <<11631, 11631>>, <<11647, 11647>>, <<11744, 11775>>, <<11823, 11823>>, <<12293, 12293>>,
      <<12330, 12333>>, <<12337, 12341>>, <<12347, 12347>>, <<12441, 12446>>, <<12540, 12542>>, <<40981, 40981>>,
      <<42232, 42237>>, <<42508, 42508>>, <<42607, 42610>>, <<42612, 42621>>, <<42623, 42623>>, <<42652, 42655>>,
      <<42736, 42737>>, <<42752, 42785>>, <<42864, 42864>>, <<42888, 42890>>, <<42994, 42996>>, <<43000, 43001>>,
      <<43010, 43010>>, <<43014, 43014>>, <<43019, 43019>>, <<43045, 43046>>, <<43052, 43052>>, <<43204, 43205>>,
      <<43232, 43249>>, <<43263, 43263>>, <<43302, 43309>>, <<43335, 43345>>, <<43392, 43394>>, <<43443, 43443>>,
      <<43446, 43449>>, <<43452, 43453>>, <<43471, 43471>>, <<43493, 43494>>, <<43561, 43566>>, <<43569, 43570>>,
      <<43573, 43574>>, <<43587, 43587>>, <<43596, 43596>>, <<43632, 43632>>, <<43644, 43644>>, <<43696, 43696>>,
      <<43698, 43700>>, <<43703, 43704>>, <<43710, 43711>>, <<43713, 43713>>, <<43741, 43741>>, <<43756, 43757>>,
      <<43763, 43764>>, <<43766, 43766>>, <<43867, 43871>>, <<43881, 43883>>, <<44005, 44005>>, <<44008, 44008>>,
      <<44013, 44013>>, <<64286, 64286>>, <<64434, 64450>>, <<65024, 65039>>, <<65043, 65043>>, <<65056, 65071>>,
      <<65106, 65106>>, <<65109, 65109>>, <<65279, 65279>>, <<65287, 65287>>, <<65294, 65294>>, <<65306, 65306>>,
      <<65342, 65342>>, <<65344, 65344>>, <<65392, 65392>>, <<65438, 65439>>, <<65507, 65507>>, <<65529, 65531>>,
      <<66045, 66045>>, <<66272, 66272>>, <<66422, 66426>>, <<67456, 67461>>, <<67463, 67504>>, <<67506, 67514>>,
      <<68097, 68099>>, <<68101, 68102>>, <<68108, 68111>>, <<68152, 68154>>, <<68159, 68159>>, <<68325, 68326>>,
      <<68900, 68903>>, <<69291, 69292>>, <<69446, 69456>>, <<69506, 69509>>, <<69633, 69633>>, <<69688, 69702>>,
      <<69744, 69744>>, <<69747, 69748>>, <<69759, 69761>>, <<69811, 69814>>, <<69817, 69818>>, <<69821, 69821>>,
      <<69826, 69826>>, <<69837, 69837>>, <<69888, 69890>>, <<69927, 69931>>, <<69933, 69940>>, <<70003, 70003>>,
      <<70016, 70017>>, <<70070, 70078>>, <<70089, 70092>>, <<70095, 70095>>, <<70191, 70193>>, <<70196, 70196>>,
      <<70198, 70199>>, <<70206, 70206>>, <<70367, 70367>>, <<70371, 70378>>, <<70400, 70401>>, <<70459, 70460>>,
      <<70464, 70464>>, <<70502, 70508>>, <<70512, 70516>>, <<70712, 70719>>, <<70722, 70724>>, <<70726, 70726>>,
      <<70750, 70750>>, <<70835, 70840>>, <<70842, 70842>>, <<70847, 70848>>, <<70850, 70851>>, <<71090, 71093>>,
      <<71100, 71101>>, <<71103, 71104>>, <<71132, 71133>>, <<71219, 71226>>, <<71229, 71229>>, <<71231, 71232>>,
      <<71339, 71339>>, <<71341, 71341>>, <<71344, 71349>>, <<71351, 71351>>, <<71453, 71455>>, <<71458, 71461>>,
      <<71463, 71467>>, <<71727, 71735>>, <<71737, 71738>>, <<71995, 71996>>, <<71998, 71998>>, <<72003, 72003>>,
      <<72148, 72151>>, <<72154, 72155>>, <<72160, 72160>>, <<72193, 72202>>, <<72243, 72248>>, <<72251, 72254>>,
      <<72263, 72263>>, <<72273, 72278>>, <<72281, 72283>>, <<72330, 72342>>, <<72344, 72345>>, <<72752, 72758>>,
      <<72760, 72765>>, <<72767, 72767>>, <<72850, 72871>>, <<72874, 72880>>, <<72882, 72883>>, <<72885, 72886>>,
      <<73009, 73014>>, <<73018, 73018>>, <<73020, 73021>>, <<73023, 73029>>, <<73031, 73031>>, <<73104, 73105>>,
      <<73109, 73109>>, <<73111, 73111>>, <<73459, 73460>>, <<78896, 78904>>, <<92912, 92916>>, <<92976, 92982>>,
      <<92992, 92995>>, <<94031, 94031>>, <<94095, 94111>>, <<94176, 94177>>, <<94179, 94180>>, <<110576, 110579>>,
      <<110581, 110587>>, <<110589, 110590>>, <<113821, 113822>>, <<113824, 113827>>, <<118528, 118573>>, <<118576, 118598>>,
      <<119143, 119145>>, <<119155, 119170>>, <<119173, 119179>>, <<119210, 119213>>, <<119362, 119364>>, <<121344, 121398>>,
      <<121403, 121452>>, <<121461, 121461>>, <<121476, 121476>>, <<121499, 121503>>, <<121505, 121519>>, <<122880, 122886>>,
      <<122888, 122904>>, <<122907, 122913>>, <<122915, 122916>>, <<122918, 122922>>, <<123184, 123197>>, <<123566, 123566>>,
      <<123628, 123631>>, <<125136, 125142>>, <<125252, 125259>>, <<127995, 127999>>, <<917505, 917505>>, <<917536, 917631>>,
      <<917760, 917999>>>>

\* code points that are cased and not case-ignorable, as <<first, last>>
CasedRanges ==
    <<<<65, 90>>, <<97, 122>>, <<170, 170>>, <<181, 181>>, <<186, 186>>, <<192, 214>>,
      <<216, 246>>, <<248, 442>>, <<444, 447>>, <<452, 659>>, <<661, 687>>, <<880, 883>>,
      <<886, 887>>, <<891, 893>>, <<895, 895>>, <<902, 902>>, <<904, 906>>, <<908, 908>>,
      <<910, 929>>, <<931, 1013>>, <<1015, 1153>>, <<1162, 1327>>, <<1329, 1366>>, <<1376, 1416>>,
      <<4256, 4293>>, <<4295, 4295>>, <<4301, 4301>>, <<4304, 4346>>, <<4349, 4351>>, <<5024, 5109>>,
      <<5112, 5117>>, <<7296, 7304>>, <<7312, 7354>>, <<7357, 7359>>, <<7424, 7467>>, <<7531, 7543>>,
      <<7545, 7578>>, <<7680, 7957>>, <<7960, 7965>>, <<7968, 8005>>, <<8008, 8013>>, <<8016, 8023>>,
      <<8025, 8025>>, <<8027, 8027>>, <<8029, 8029>>, <<8031, 8061>>, <<8064, 8116>>, <<8118, 8124>>,
      <<8126, 8126>>, <<8130, 8132>>, <<8134, 8140>>, <<8144, 8147>>, <<8150, 8155>>, <<8160, 8172>>,
      <<8178, 8180>>, <<8182, 8188>>, <<8450, 8450>>, <<8455, 8455>>, <<8458, 8467>>, <<8469, 8469>>,
      <<8473, 8477>>, <<8484, 8484>>, <<8486, 8486>>, <<8488, 8488>>, <<8490, 8493>>, <<8495, 8500>>,
      <<8505, 8505>>, <<8508, 8511>>, <<8517, 8521>>, <<8526, 8526>>, <<8544, 8575>>, <<8579, 8580>>,
      <<9398, 9449>>, <<11264, 11387>>, <<11390, 11492>>, <<11499, 11502>>, <<11506, 11507>>, <<11520, 11557>>,
      <<11559, 11559>>, <<11565, 11565>>, <<42560, 42605>>, <<42624, 42651>>, <<42786, 42863>>, <<42865, 42887>>,
      <<42891, 42894>>, <<42896, 42954>>, <<42960, 42961>>, <<42963, 42963>>, <<42965, 42969>>, <<42997, 42998>>,
      <<43002, 43002>>, <<43824, 43866>>, <<43872, 43880>>, <<43888, 43967>>, <<64256, 64262>>, <<64275, 64279>>,
      <<65313, 65338>>, <<65345, 65370>>, <<66560, 66639>>, <<66736, 66771>>, <<66776, 66811>>, <<66928, 66938>>,
      <<66940, 66954>>, <<66956, 66962>>, <<66964, 66965>>, <<66967, 66977>>, <<66979, 66993>>, <<66995, 67001>>,
      <<67003, 67004>>, <<68736, 68786>>, <<68800, 68850>>, <<71840, 71903>>, <<93760, 93823>>, <<119808, 119892>>,
      <<119894, 119964>>, <<119966, 119967>>, <<119970, 119970>>, <<119973, 119974>>, <<119977, 119980>>, <<119982, 119993>>,
      <<119995, 119995>>, <<119997, 120003>>, <<120005, 120069>>, <<120071, 120074>>, <<120077, 120084>>, <<120086, 120092>>,
      <<120094, 120121>>, <<120123, 120126>>, <<120128, 120132>>, <<120134, 120134>>, <<120138, 120144>>, <<120146, 120485>>,
      <<120488, 120512>>, <<120514, 120538>>, <<120540, 120570>>, <<120572, 120596>>, <<120598, 120628>>, <<120630, 120654>>,
      <<120656, 120686>>, <<120688, 120712>>, <<120714, 120744>>, <<120746, 120770>>, <<120772, 120779>>, <<122624, 122633>>,
      <<122635, 122654>>, <<125184, 125251>>, <<127280, 127305>>, <<127312, 127337>>, <<127344, 127369>>>>

InRanges(c, R) == \E i \in DOMAIN R : R[i][1] <= c /\ c <= R[i][2]

IsCaseIgnorable(c) == InRanges(c, CaseIgnorableRanges)

\* the final-sigma rule asks for cased only on code points that are not
\* case-ignorable
IsCased(c) == InRanges(c, CasedRanges)

LowerCovers(r, c) == r[1] <= c /\ c <= r[2] /\ (c - r[1]) % r[3] = 0

\* str.lower() on one code point other than capital sigma: among the ASCII
\* code points only A-Z change; I with dot above (304) is the only code point
\* whose lowercase form has two code points
lower_char(c) ==
    IF c < 128 THEN (IF 65 <= c /\ c <= 90 THEN <<c + 32>> ELSE <<c>>)
    ELSE IF c = 304 THEN <<105, 775>>
    ELSE IF \E i \in DOMAIN LowerRanges : LowerCovers(LowerRanges[i], c)
    THEN <<c + LowerRanges[CHOOSE i \in DOMAIN LowerRanges :
                               LowerCovers(LowerRanges[i], c)][4]>>
    ELSE <<c>>

RECURSIVE skip_ignorable_back(_, _)
skip_ignorable_back(s, j) ==
    IF j >= 1 /\ IsCaseIgnorable(s[j]) THEN skip_ignorable_back(s, j - 1) ELSE j

RECURSIVE skip_ignorable_forward(_, _)
skip_ignorable_forward(s, j) ==
    IF j <= Len(s) /\ IsCaseIgnorable(s[j])
    THEN skip_ignorable_forward(s, j + 1)
    ELSE j

\* str.lower() on capital sigma (931) at position i of s: final sigma (962)
\* after a cased letter and not before one, small sigma (963) otherwise
handle_capital_sigma(s, i) ==
    LET j == skip_ignorable_back(s, i - 1)
        k == skip_ignorable_forward(s, i + 1)
    IN  IF /\ j >= 1
           /\ IsCased(s[j])
           /\ (k > Len(s) \/ ~IsCased(s[k]))
        THEN 962
        ELSE 963

RECURSIVE lower_from(_, _)
lower_from(s, i) ==
    IF i > Len(s) THEN <<>>
    ELSE (IF s[i] = 931 THEN <<handle_capital_sigma(s, i)>> ELSE lower_char(s[i]))
         \o lower_from(s, i + 1)

\* str.lower()
lower(s) == lower_from(s, 1)

RECURSIVE lstrip(_)
lstrip(s) ==
    IF s # <<>> /\ Head(s) \in Whitespace THEN lstrip(Tail(s)) ELSE s

RECURSIVE rstrip(_)
rstrip(s) ==
    IF s # <<>> /\ s[Len(s)] \in Whitespace
    THEN rstrip(SubSeq(s, 1, Len(s) - 1))
    ELSE s

\* str.strip(): removes leading and trailing whitespace only
strip(s) == rstrip(lstrip(s))

\* v.strip().lower() without the strip (faulty variant)
clean_value_nostrip(v) == lower(v)

\* v.strip().lower(), line 66
clean_value(v) == lower(strip(v))

----------------------------------------------------------------------------
(* Input files *)

\* "john smith"
JohnSmith      == <<106, 111, 104, 110, 32, 115, 109, 105, 116, 104>>
\* "John  Smith " (two inner spaces, one trailing)
JohnSmithTwoSp == <<74, 111, 104, 110, 32, 32, 83, 109, 105, 116, 104, 32>>
\* "John Smith " (one inner space, one trailing)
JohnSmithOneSp == <<74, 111, 104, 110, 32, 83, 109, 105, 116, 104, 32>>
\* "John Smith" between a form feed and a no-break space
JohnSmithFeed  == <<12, 74, 111, 104, 110, 32, 83, 109, 105, 116, 104, 160>>
\* "ÉLODIE ΣΟΦΌΣ": accented capitals and a final sigma
ElodieSofos    == <<201, 76, 79, 68, 73, 69, 32, 931, 927, 934, 908, 931>>

\* "1", "2", "3"
Id1 == <<49>>
Id2 == <<50>>
Id3 == <<51>>

IdPool   == {Id1, Id2, Id3}
NamePool == {JohnSmith, JohnSmithTwoSp, JohnSmithOneSp, JohnSmithFeed, ElodieSofos}

\* a row of a file whose header is id,name / whose header is name only
RowsWithId    == [id : IdPool, name : NamePool]
RowsWithoutId == [name : NamePool]

SeqsUpTo(S, n) == UNION {[1..k -> S] : k \in 0..n}

\* the row sequences csv.DictReader can yield
InputRows ==
    SeqsUpTo(RowsWithId, MaxRows) \cup SeqsUpTo(RowsWithoutId, MaxRows)

\* the rows of the input files of the runs: records 1 and 2 agree on the
\* normalized name, record 3 differs from both
RunRowsWithId ==
    {[id |-> Id1, name |-> JohnSmith],
     [id |-> Id2, name |-> JohnSmithOneSp],
     [id |-> Id3, name |-> JohnSmithTwoSp]}

RunRows ==
    SeqsUpTo(RunRowsWithId, MaxRows) \cup SeqsUpTo(RowsWithoutId, MaxRows)

HasDuplicateIds(rs) ==
    \E i, j \in DOMAIN rs :
        i # j /\ "id" \in DOMAIN rs[i] /\ "id" \in DOMAIN rs[j] /\ rs[i].id = rs[j].id

IdColumnAbsent(rs) == \E i \in DOMAIN rs : "id" \notin DOMAIN rs[i]

RowIds(rs) == {rs[i].id : i \in {j \in DOMAIN rs : "id" \in DOMAIN rs[j]}}

----------------------------------------------------------------------------
(* read_data *)

EmptyDict == [k \in {} |-> <<>>]

\* clean_row / dict(clean_row), lines 66 and 68
clean_row(row) == [k \in DOMAIN row |-> clean_value(row[k])]

\* data_d[row_id] = dict(clean_row), lines 67-68: the key is the raw id and
\* an existing key is overwritten
store_row(d, row) ==
    [k \in DOMAIN d \cup {row.id} |-> IF k = row.id THEN clean_row(row) ELSE d[k]]

\* the whole loop of read_data, lines 62-69
RECURSIVE read_rows(_, _)
read_rows(d, rs) ==
    IF rs = <<>> THEN [status |-> "returned", data |-> d]
    ELSE IF "id" \notin DOMAIN Head(rs) THEN [status |-> "KeyError", data |-> d]
    ELSE read_rows(store_row(d, Head(rs)), Tail(rs))

read_data(exists, rs) ==
    IF ~exists THEN [status |-> "AssertionError", data |-> EmptyDict]
    ELSE read_rows(EmptyDict, rs)

----------------------------------------------------------------------------
(* read_data, one row per step: specification SpecLoad *)

\* the state of the files and of the process before any run
AbsentSettings == [exists |-> FALSE, schema |-> <<>>, complete |-> FALSE]
AbsentTraining == [exists |-> FALSE, pairs |-> {}, complete |-> FALSE]
AbsentOutput   == [exists |-> FALSE, header |-> FALSE, rows |-> <<>>]
NoDeduper      == [kind |-> "none", schema |-> <<>>, training_pairs |-> {},
                   trained |-> FALSE]

DiskInit ==
    /\ settingsFile = AbsentSettings
    /\ trainingFile = AbsentTraining
    /\ outputFile = AbsentOutput

RunIdle ==
    /\ pc = "idle"
    /\ fields = <<>>
    /\ data = EmptyDict
    /\ inputIds = {}
    /\ deduper = NoDeduper
    /\ clustered_dupes = <<>>
    /\ handles = {}
    /\ error = ""
    /\ calls = <<>>
    /\ settings0 = AbsentSettings
    /\ training0 = AbsentTraining
    /\ output0 = AbsentOutput

LoadIdle ==
    /\ inputExists = TRUE
    /\ rows = <<>>
    /\ idx = 0
    /\ data_d = EmptyDict
    /\ lstatus = "reading"

InitLoad ==
    /\ inputExists \in BOOLEAN
    /\ rows \in InputRows
    /\ idx = 0
    /\ data_d = EmptyDict
    /\ lstatus = "reading"
    /\ DiskInit
    /\ RunIdle

\* line 59: assert os.path.exists(self.input_file)
ReadAssert ==
    /\ lstatus = "reading"
    /\ idx = 0
    /\ ~inputExists
    /\ lstatus' = "AssertionError"
    /\ UNCHANGED <<inputExists, rows, idx, data_d, diskVars, runVars>>

\* lines 65-68: one iteration of the loop over the reader
ReadRow ==
    /\ lstatus = "reading"
    /\ inputExists
    /\ idx < Len(rows)
    /\ LET row == rows[idx + 1] IN
         IF "id" \in DOMAIN row
         THEN /\ data_d' = store_row(data_d, row)
              /\ idx' = idx + 1
              /\ lstatus' = lstatus
         ELSE /\ lstatus' = "KeyError"
              /\ UNCHANGED <<data_d, idx>>
    /\ UNCHANGED <<inputExists, rows, diskVars, runVars>>

\* line 69: return data_d
ReadReturn ==
    /\ lstatus = "reading"
    /\ inputExists
    /\ idx = Len(rows)
    /\ lstatus' = "returned"
    /\ UNCHANGED <<inputExists, rows, idx, data_d, diskVars, runVars>>

NextLoad == ReadAssert \/ ReadRow \/ ReadReturn

SpecLoad == InitLoad /\ [][NextLoad]_vars

----------------------------------------------------------------------------
(* Field schema, candidate pairs, classifier and clustering *)

\* the field lists a run may be configured with (--fields)
FieldsPool == {<<"name">>, <<"id">>}

\* define_fields, lines 78-81: String(field, has_missing=True) per field
define_fields(fs) ==
    [i \in DOMAIN fs |-> [field |-> fs[i], type |-> "String", has_missing |-> TRUE]]

\* match(self.data, 0.5): the threshold, in hundredths
Threshold == 50

\* the maximal score, in hundredths; also the score of a singleton
MaxScore == 100

\* a classifier that rewards exact equality of every field of its schema
Score(schema, r1, r2) ==
    IF \A i \in DOMAIN schema : r1[schema[i].field] = r2[schema[i].field]
    THEN MaxScore ELSE 0

\* the candidate pairs of a record dictionary
CandidatePairs(d) == {p \in SUBSET (DOMAIN d) : Cardinality(p) = 2}

\* the edge of the cluster graph: predicted probability >= threshold
Linked(d, schema, threshold, a, b) ==
    a # b /\ Score(schema, d[a], d[b]) >= threshold

\* the connected component of a set of record ids
RECURSIVE Component(_, _, _, _)
Component(d, schema, threshold, S) ==
    LET T == S \cup {b \in DOMAIN d : \E a \in S : Linked(d, schema, threshold, a, b)}
    IN  IF T = S THEN S ELSE Component(d, schema, threshold, T)

Components(d, schema, threshold) ==
    {Component(d, schema, threshold, {a}) : a \in DOMAIN d}

Max(S) == CHOOSE x \in S : \A y \in S : y <= x

\* the confidence of a member: its strongest qualifying edge into the cluster,
\* the maximal score for a singleton
MemberScore(d, schema, threshold, c, a) ==
    LET edges == {Score(schema, d[a], d[b]) :
                    b \in {x \in c : Linked(d, schema, threshold, a, x)}}
    IN  IF edges = {} THEN MaxScore ELSE Max(edges)

\* the orderings of a finite set
Orderings(S) ==
    {s \in [1..Cardinality(S) -> S] : \A i, j \in DOMAIN s : i # j => s[i] # s[j]}

\* the results match can return: the connected components, in some order,
\* each as (record ids, scores)
match(d, schema, threshold) ==
    LET comps == Components(d, schema, threshold)
        AsCluster(c) ==
            {[records |-> o,
              scores  |-> [i \in DOMAIN o |-> MemberScore(d, schema, threshold, c, o[i])]]
               : o \in Orderings(c)}
    IN  {cs \in [1..Cardinality(comps) -> UNION {AsCluster(c) : c \in comps}] :
            \A i, j \in DOMAIN cs :
                i # j => (\A k \in DOMAIN cs[i].records, l \in DOMAIN cs[j].records :
                              cs[i].records[k] # cs[j].records[l])}

----------------------------------------------------------------------------
(* deduplicate: the rows written, lines 125-127 *)

\* zip(records, scores) of one cluster, with its cluster id
cluster_rows(cluster_id, cluster) ==
    LET n == IF Len(cluster.records) <= Len(cluster.scores)
             THEN Len(cluster.records) ELSE Len(cluster.scores)
    IN  [i \in 1..n |-> [id      |-> cluster.records[i],
                         cluster |-> cluster_id,
                         score   |-> cluster.scores[i]]]

RECURSIVE rows_from(_, _)
rows_from(cd, k) ==
    IF k > Len(cd) THEN <<>>
    ELSE cluster_rows(k - 1, cd[k]) \o rows_from(cd, k + 1)

\* only the first member of every cluster is written (faulty variant)
RECURSIVE first_rows_from(_, _)
first_rows_from(cd, k) ==
    IF k > Len(cd) THEN <<>>
    ELSE SubSeq(cluster_rows(k - 1, cd[k]), 1, 1) \o first_rows_from(cd, k + 1)

output_rows_first_only(cd) == first_rows_from(cd, 1)

\* for cluster_id, (records, scores) in enumerate(clustered_dupes): ...
output_rows(cd) == rows_from(cd, 1)

----------------------------------------------------------------------------
(* The runs of the program: specification Spec *)

Init ==
    /\ LoadIdle
    /\ DiskInit
    /\ RunIdle

Raise(e) ==
    /\ pc' = "failed"
    /\ error' = e

\* main / __init__, lines 43-50 and 148-154: the process starts, the
\* constructor stores its arguments and reads the input file.  The settings,
\* training and output paths hold what the earlier runs left there.
Construct ==
    /\ pc = "idle"
    /\ \E exists \in BOOLEAN :
       \E rs \in IF exists THEN RunRows ELSE {<<>>} :
         LET r == read_data(exists, rs) IN
           /\ inputIds' = RowIds(rs)
           /\ IF r.status = "returned"
              THEN /\ data' = r.data
                   /\ pc' = "setup"
                   /\ error' = ""
              ELSE /\ data' = EmptyDict
                   /\ Raise(r.status)
    /\ fields' \in FieldsPool
    /\ output0' = outputFile
    /\ settings0' = settingsFile
    /\ training0' = trainingFile
    /\ UNCHANGED <<loadVars, diskVars, deduper, clustered_dupes, handles,
                   calls>>

\* the branch is never taken (faulty variant)
UseSavedSettings_never == FALSE

\* line 90: os.path.exists(self.settings_file)
UseSavedSettings == settingsFile.exists

\* line 91: self.deduper = StaticDedupe(open(self.settings_file, "rb")).
\* The file object is opened and never closed by the program; the classifier
\* and its field schema come from the file alone.
SetupLoadSettings ==
    /\ pc = "setup"
    /\ UseSavedSettings
    /\ handles' = handles \cup {"settings_rb"}
    /\ calls' = Append(calls, "StaticDedupe")
    /\ IF settingsFile.complete
       THEN /\ deduper' = [kind |-> "static", schema |-> settingsFile.schema,
                           training_pairs |-> {}, trained |-> TRUE]
            /\ pc' = "deduplicate"
            /\ error' = error
       ELSE /\ deduper' = deduper
            /\ Raise("SettingsError")
    /\ UNCHANGED <<loadVars, diskVars, fields, data, inputIds,
                   clustered_dupes, settings0, training0, output0>>

\* lines 93-94: Dedupe(self.define_fields()); prepare_training(self.data)
SetupPrepareTraining ==
    /\ pc = "setup"
    /\ ~UseSavedSettings
    /\ deduper' = [kind |-> "active", schema |-> define_fields(fields),
                   training_pairs |-> {}, trained |-> FALSE]
    /\ calls' = calls \o <<"Dedupe", "prepare_training">>
    /\ pc' = "active_learning"
    /\ UNCHANGED <<loadVars, diskVars, fields, data, inputIds,
                   clustered_dupes, handles, error, settings0, training0, output0>>

\* lines 95 and 103: active_learning calls dedupe.console_label
ActiveLearning ==
    /\ pc = "active_learning"
    /\ calls' = Append(calls, "console_label")
    /\ pc' = "labeling"
    /\ UNCHANGED <<loadVars, diskVars, fields, data, inputIds, deduper,
                   clustered_dupes, handles, error, settings0, training0, output0>>

LabeledPair(p, v) == [pair |-> {data[a] : a \in p}, verdict |-> v]

\* the labeling session: the oracle answers match or distinct for a pair;
\* a later label of the same pair overrides the earlier one
mark_pair(tp, lp) == {x \in tp : x.pair # lp.pair} \cup {lp}

LabelPair ==
    /\ pc = "labeling"
    /\ \E p \in CandidatePairs(data), v \in {"match", "distinct"} :
         deduper' = [deduper EXCEPT
                       !.training_pairs = mark_pair(@, LabeledPair(p, v))]
    /\ UNCHANGED <<loadVars, diskVars, pc, fields, data, inputIds,
                   clustered_dupes, handles, error, calls, settings0,
                   training0, output0>>

\* the oracle finishes: console_label returns, line 96 is next
LabelFinish ==
    /\ pc = "labeling"
    /\ pc' = "train"
    /\ UNCHANGED <<loadVars, diskVars, fields, data, inputIds, deduper,
                   clustered_dupes, handles, error, calls, settings0,
                   training0, output0>>

\* the oracle interrupts the session: the exception leaves console_label,
\* active_learning (line 103) and setup_deduper (line 95), none of which
\* catches it; save_settings_and_training is not reached
LabelAbort ==
    /\ pc = "labeling"
    /\ Raise("KeyboardInterrupt")
    /\ UNCHANGED <<loadVars, diskVars, fields, data, inputIds, deduper,
                   clustered_dupes, handles, calls, settings0, training0, output0>>

\* the trainer needs a match and a distinct example
EnoughLabels(tp) ==
    /\ \E x \in tp : x.verdict = "match"
    /\ \E x \in tp : x.verdict = "distinct"

\* line 96: self.deduper.train()
TrainOk ==
    /\ pc = "train"
    /\ EnoughLabels(deduper.training_pairs)
    /\ deduper' = [deduper EXCEPT !.trained = TRUE]
    /\ calls' = Append(calls, "train")
    /\ pc' = "save_open_training"
    /\ UNCHANGED <<loadVars, diskVars, fields, data, inputIds,
                   clustered_dupes, handles, error, settings0, training0, output0>>

TrainFail ==
    /\ pc = "train"
    /\ ~EnoughLabels(deduper.training_pairs)
    /\ calls' = Append(calls, "train")
    /\ Raise("InsufficientDataError")
    /\ UNCHANGED <<loadVars, diskVars, fields, data, inputIds, deduper,
                   clustered_dupes, handles, settings0, training0, output0>>


\* line 109: open(self.training_file, "w") creates or truncates the file
SaveOpenTraining ==
    /\ pc = "save_open_training"
    /\ trainingFile' = [exists |-> TRUE, pairs |-> {}, complete |-> FALSE]
    /\ handles' = handles \cup {"training_w"}
    /\ pc' = "save_write_training"
    /\ UNCHANGED <<loadVars, settingsFile, outputFile, fields, data,
                   inputIds, deduper, clustered_dupes, error, calls, settings0,
                   training0, output0>>

\* line 110 and the end of the with block: write_training writes the labeled
\* pairs the deduper holds, then the file is closed
SaveWriteTraining ==
    /\ pc = "save_write_training"
    /\ trainingFile' = [exists |-> TRUE, pairs |-> deduper.training_pairs,
                        complete |-> TRUE]
    /\ handles' = handles \ {"training_w"}
    /\ calls' = Append(calls, "write_training")
    /\ pc' = "save_open_settings"
    /\ UNCHANGED <<loadVars, settingsFile, outputFile, fields, data,
                   inputIds, deduper, clustered_dupes, error, settings0,
                   training0, output0>>

\* line 112: open(self.settings_file, "wb") creates or truncates the file
SaveOpenSettings ==
    /\ pc = "save_open_settings"
    /\ settingsFile' = [exists |-> TRUE, schema |-> <<>>, complete |-> FALSE]
    /\ handles' = handles \cup {"settings_wb"}
    /\ pc' = "save_write_settings"
    /\ UNCHANGED <<loadVars, trainingFile, outputFile, fields, data,
                   inputIds, deduper, clustered_dupes, error, calls, settings0,
                   training0, output0>>

\* line 113 and the end of the with block; setup_deduper returns
SaveWriteSettings ==
    /\ pc = "save_write_settings"
    /\ settingsFile' = [exists |-> TRUE, schema |-> deduper.schema,
                        complete |-> TRUE]
    /\ handles' = handles \ {"settings_wb"}
    /\ calls' = Append(calls, "write_settings")
    /\ pc' = "deduplicate"
    /\ UNCHANGED <<loadVars, trainingFile, outputFile, fields, data,
                   inputIds, deduper, clustered_dupes, error, settings0,
                   training0, output0>>

\* an I/O error in open (lines 109, 112), or in a write or the close of the
\* with block after write_training / write_settings was called (lines 110,
\* 113): the with block closes the file it holds, the file keeps what was
\* written
SaveFail ==
    /\ pc \in {"save_open_training", "save_write_training",
               "save_open_settings", "save_write_settings"}
    /\ handles' = handles \ {"training_w", "settings_wb"}
    /\ calls' = IF pc = "save_write_training" THEN Append(calls, "write_training")
                ELSE IF pc = "save_write_settings" THEN Append(calls, "write_settings")
                ELSE calls
    /\ Raise("OSError")
    /\ UNCHANGED <<loadVars, diskVars, fields, data, inputIds, deduper,
                   clustered_dupes, settings0, training0, output0>>

\* line 119: clustered_dupes = self.deduper.match(self.data, 0.5), with the
\* schema of the deduper, whatever self.fields is
MatchOk ==
    /\ pc = "deduplicate"
    /\ \E cd \in match(data, deduper.schema, Threshold) : clustered_dupes' = cd
    /\ calls' = Append(calls, "match")
    /\ pc' = "open_output"
    /\ UNCHANGED <<loadVars, diskVars, fields, data, inputIds, deduper,
                   handles, error, settings0, training0, output0>>

\* match raises
MatchFail ==
    /\ pc = "deduplicate"
    /\ calls' = Append(calls, "match")
    /\ Raise("MatchError")
    /\ UNCHANGED <<loadVars, diskVars, fields, data, inputIds, deduper,
                   clustered_dupes, handles, settings0, training0, output0>>

\* line 121: open(self.output_file, "w") creates or truncates the file
OpenOutput ==
    /\ pc = "open_output"
    /\ outputFile' = [exists |-> TRUE, header |-> FALSE, rows |-> <<>>]
    /\ handles' = handles \cup {"output_w"}
    /\ pc' = "write_header"
    /\ UNCHANGED <<loadVars, settingsFile, trainingFile, fields, data,
                   inputIds, deduper, clustered_dupes, error, calls, settings0,
                   training0, output0>>

\* line 123: the header row
WriteHeader ==
    /\ pc = "write_header"
    /\ outputFile' = [outputFile EXCEPT !.header = TRUE]
    /\ pc' = "write_rows"
    /\ UNCHANGED <<loadVars, settingsFile, trainingFile, fields, data,
                   inputIds, deduper, clustered_dupes, handles, error, calls,
                   settings0, training0, output0>>

\* line 127: the next row
WriteRow ==
    /\ pc = "write_rows"
    /\ Len(outputFile.rows) < Len(output_rows(clustered_dupes))
    /\ outputFile' = [outputFile EXCEPT
                        !.rows = Append(@, output_rows(clustered_dupes)[Len(@) + 1])]
    /\ UNCHANGED <<loadVars, settingsFile, trainingFile, pc, fields,
                   data, inputIds, deduper, clustered_dupes, handles, error,
                   calls, settings0, training0, output0>>

\* the end of the with block of line 121; deduplicate returns, line 135
CloseOutput ==
    /\ pc = "write_rows"
    /\ Len(outputFile.rows) = Len(output_rows(clustered_dupes))
    /\ handles' = handles \ {"output_w"}
    /\ pc' = "done"
    /\ UNCHANGED <<loadVars, diskVars, fields, data, inputIds, deduper,
                   clustered_dupes, error, calls, settings0, training0, output0>>

\* an I/O error in open or in a writerow of deduplicate: the with block
\* closes the file, which keeps what was written
EmitFail ==
    /\ pc \in {"open_output", "write_header", "write_rows"}
    /\ handles' = handles \ {"output_w"}
    /\ Raise("OSError")
    /\ UNCHANGED <<loadVars, diskVars, fields, data, inputIds, deduper,
                   clustered_dupes, calls, settings0, training0, output0>>

\* the file object of line 91 has no owner: the runtime closes it when it
\* finalizes the object, at a moment the program does not choose
ReclaimHandle ==
    /\ "settings_rb" \in handles
    /\ handles' = handles \ {"settings_rb"}
    /\ UNCHANGED <<loadVars, diskVars, pc, fields, data, inputIds, deduper,
                   clustered_dupes, error, calls, settings0, training0, output0>>

\* the process exits: its objects and file objects are gone, the files stay
EndRun ==
    /\ pc \in {"done", "failed"}
    /\ pc' = "idle"
    /\ fields' = <<>>
    /\ data' = EmptyDict
    /\ inputIds' = {}
    /\ deduper' = NoDeduper
    /\ clustered_dupes' = <<>>
    /\ handles' = {}
    /\ error' = ""
    /\ calls' = <<>>
    /\ settings0' = AbsentSettings
    /\ training0' = AbsentTraining
    /\ output0' = AbsentOutput
    /\ UNCHANGED <<loadVars, diskVars>>

Next ==
    \/ Construct
    \/ SetupLoadSettings
    \/ SetupPrepareTraining
    \/ ActiveLearning
    \/ LabelPair
    \/ LabelFinish
    \/ LabelAbort
    \/ TrainOk
    \/ TrainFail
    \/ SaveOpenTraining
    \/ SaveWriteTraining
    \/ SaveOpenSettings
    \/ SaveWriteSettings
    \/ SaveFail
    \/ MatchOk
    \/ MatchFail
    \/ OpenOutput
    \/ WriteHeader
    \/ WriteRow
    \/ CloseOutput
    \/ EmitFail
    \/ ReclaimHandle
    \/ EndRun

Spec == Init /\ [][Next]_vars

----------------------------------------------------------------------------
(* Properties *)

Range(f) == {f[i] : i \in DOMAIN f}

SetupReturnedOrRaised ==
    pc \in {"deduplicate", "open_output", "write_header", "write_rows",
            "done", "failed"}

\* C1: in a run that found a settings file when it started, the deduper is a
\* StaticDedupe built from that file, the only library calls are StaticDedupe
\* and then match (no Dedupe, prepare_training, console_label, train,
\* write_training or write_settings), and the settings and training files
\* stay as they were.
C1_SavedSettingsSkipTraining ==
    (pc # "idle" /\ settings0.exists) =>
        /\ calls \in {<<>>, <<"StaticDedupe">>, <<"StaticDedupe", "match">>}
        /\ deduper.kind \in {"none", "static"}
        /\ (deduper.kind = "static" => deduper.schema = settings0.schema)
        /\ settingsFile = settings0
        /\ trainingFile = training0

C1_Witness ==
    /\ pc = "done"
    /\ settings0.exists
    /\ calls = <<"StaticDedupe", "match">>

\* C2: a run whose loaded classifier was trained for other fields than the
\* configured ones never calls match, writes no output, and ends with
\* ModelCompatibilityError.
C2_SchemaMismatchIsFatal ==
    (deduper.kind = "static" /\ deduper.schema # define_fields(fields)) =>
        /\ "match" \notin Range(calls)
        /\ outputFile = output0
        /\ (pc \in {"done", "failed"} => error = "ModelCompatibilityError")

RowsOf(a) == {i \in DOMAIN outputFile.rows : outputFile.rows[i].id = a}

ClusterMembers(c) ==
    {outputFile.rows[i].id : i \in {j \in DOMAIN outputFile.rows :
                                        outputFile.rows[j].cluster = c}}

NoQualifyingPair(a) ==
    \A b \in DOMAIN data \ {a} :
        Score(deduper.schema, data[a], data[b]) < Threshold

\* C3: when a run completes, every identifier of the input file is in
\* exactly one output row, no other identifier is in the output, and a
\* record with no pair scoring at least the threshold is alone in its
\* cluster.
C3_OutputIsPartition ==
    pc = "done" =>
        /\ \A a \in inputIds : Cardinality(RowsOf(a)) = 1
        /\ \A i \in DOMAIN outputFile.rows : outputFile.rows[i].id \in inputIds
        /\ \A a \in DOMAIN data :
              NoQualifyingPair(a) =>
                  \A i \in RowsOf(a) :
                      ClusterMembers(outputFile.rows[i].cluster) = {a}

C3_Witness ==
    /\ pc = "done"
    /\ Cardinality(inputIds) = 3
    /\ Len(clustered_dupes) = 2
    /\ Len(outputFile.rows) = 3
    /\ \E a \in DOMAIN data : NoQualifyingPair(a)

\* C4: when the labeling session is interrupted, every label collected before
\* the interrupt is in the training file.
C4_AbortKeepsLabels ==
    (pc = "failed" /\ error = "KeyboardInterrupt") =>
        deduper.training_pairs \subseteq trainingFile.pairs

\* C5: a run that fails leaves the output path as it was before the run: no
\* new partial file, no truncated earlier result.
C5_OutputAllOrNothing ==
    pc = "failed" => outputFile = output0

\* C6: read_data never returns a record store for an input with a repeated
\* identifier or without the identifier column, and the store it returns has
\* one record per input row.
C6_DuplicateOrMissingIdRejected ==
    lstatus = "returned" =>
        /\ ~HasDuplicateIds(rows)
        /\ ~IdColumnAbsent(rows)
        /\ Cardinality(DOMAIN data_d) = Len(rows)

\* C7: every labeled pair that was in the training file when a run started is
\* in it when the run has completed.
C7_TrainingAppendOnly ==
    pc = "done" => training0.pairs \subseteq trainingFile.pairs

SameCluster(d, a, b) ==
    \A cd \in match(d, define_fields(<<"name">>), Threshold) :
        \E k \in DOMAIN cd :
            /\ {a, b} \subseteq Range(cd[k].records)
            /\ \A i \in DOMAIN cd[k].scores : cd[k].scores[i] = MaxScore

ScenarioTwoSpaces ==
    <<[id |-> Id1, name |-> JohnSmith], [id |-> Id2, name |-> JohnSmithTwoSp]>>

ScenarioOneSpace ==
    <<[id |-> Id1, name |-> JohnSmith], [id |-> Id2, name |-> JohnSmithOneSp]>>

\* C8 as stated: "john smith" and "John  Smith " (two inner spaces, one
\* trailing) load to the same name and share a cluster at threshold 0.5.
C8_TwoSpaceNamesNormalizeEqual ==
    (lstatus = "returned" /\ rows = ScenarioTwoSpaces) =>
        /\ data_d[Id1].name = data_d[Id2].name
        /\ SameCluster(data_d, Id1, Id2)

\* C8 amended: "john smith" and "John Smith " (one inner space, one trailing)
\* load to the same name, "john smith", and share a cluster with the maximal
\* score at threshold 0.5 under a classifier that rewards exact equality.
C8_OneSpaceNamesNormalizeEqual ==
    (lstatus = "returned" /\ rows = ScenarioOneSpace) =>
        /\ data_d[Id1].name = JohnSmith
        /\ data_d[Id1].name = data_d[Id2].name
        /\ SameCluster(data_d, Id1, Id2)

C8_Witness ==
    /\ lstatus = "returned"
    /\ rows = ScenarioOneSpace
    /\ DOMAIN data_d = {Id1, Id2}
    /\ data_d[Id2].name = JohnSmith

\* C9: once setup_deduper has returned or raised, no file object it opened on
\* the settings or the training file is open.
C9_SetupReleasesHandles ==
    SetupReturnedOrRaised =>
        handles \cap {"settings_rb", "training_w", "settings_wb"} = {}

\* C10: a settings file that exists when setup_deduper starts is complete,
\* and a failed run leaves no incomplete settings file behind.
C10_SettingsFileAlwaysComplete ==
    /\ (pc = "setup" /\ settingsFile.exists => settingsFile.complete)
    /\ (pc = "failed" /\ settingsFile.exists => settingsFile.complete)

====
